---- MODULE Spec2Model ----
(***************************************************************************)
(* Model of find_unhandled_reviews.py: the scan of <BASE>/<dir>/*.txt for  *)
(* review files that lack an ISSUE REVIEW section or still carry pending   *)
(* issues, and the report printed from the findings.                       *)
(*                                                                         *)
(* Text is modelled as sequences of one-character strings so that          *)
(* strip(), upper(), splitlines(), startswith() and the regular            *)
(* expression are computed character by character, as the interpreter      *)
(* computes them.  Indices into Python lists are kept 0-based (element n   *)
(* of a Python list is element n + 1 of the TLA+ sequence) and None is     *)
(* modelled by -1.                                                         *)
(***************************************************************************)
EXTENDS Integers, Sequences, FiniteSets, TLC

(***************************************************************************)
(* Bounds of the model.                                                    *)
(***************************************************************************)
\* modification times are drawn from {0, 40, ..., 40 * MaxTick} seconds
MaxTick == 2
\* files of the per-file specification have at most MaxLines lines
MaxLines == 3

(***************************************************************************)
(* Program constants.                                                      *)
(***************************************************************************)
BASE == "/home/artur/keep.ai"
DIRS == <<"reviews", "ux-tests">>
ISSUE_REVIEW == <<"I", "S", "S", "U", "E", " ", "R", "E", "V", "I", "E", "W">>
ISSUE_PREFIX == <<"-", " ", "I", "s", "s", "u", "e">>
PENDING == <<"p", "e", "n", "d", "i", "n", "g">>
MISSING_REASON == "MISSING ISSUE REVIEW section"
ALL_HANDLED == "All review files are fully handled!"
RelWidth == 35

(***************************************************************************)
(* str primitives.                                                         *)
(***************************************************************************)
\* the characters str.isspace() accepts, among those the model writes
Whitespace == {" ", "\t", "\n", "\r", "\f"}

\* the line boundaries of str.splitlines(), among those the model writes
LineBreaks == {"\n", "\r", "\f"}

LowerAlpha == <<"a", "b", "c", "d", "e", "f", "g", "h", "i", "j", "k", "l", "m",
                "n", "o", "p", "q", "r", "s", "t", "u", "v", "w", "x", "y", "z">>
UpperAlpha == <<"A", "B", "C", "D", "E", "F", "G", "H", "I", "J", "K", "L", "M",
                "N", "O", "P", "Q", "R", "S", "T", "U", "V", "W", "X", "Y", "Z">>

UpperChar(c) ==
    IF \E n \in DOMAIN LowerAlpha : LowerAlpha[n] = c
    THEN UpperAlpha[CHOOSE n \in DOMAIN LowerAlpha : LowerAlpha[n] = c]
    ELSE c

\* str.upper()
Upper(s) == [n \in 1..Len(s) |-> UpperChar(s[n])]

RECURSIVE LStrip(_, _)
LStrip(s, cs) ==
    IF Len(s) > 0 /\ s[1] \in cs THEN LStrip(Tail(s), cs) ELSE s

RECURSIVE RStrip(_, _)
RStrip(s, cs) ==
    IF Len(s) > 0 /\ s[Len(s)] \in cs THEN RStrip(SubSeq(s, 1, Len(s) - 1), cs) ELSE s

\* str.strip(chars)
StripChars(s, cs) == RStrip(LStrip(s, cs), cs)

\* str.strip()
Strip(s) == StripChars(s, Whitespace)

\* str.startswith(prefix)
StartsWith(s, prefix) ==
    Len(s) >= Len(prefix) /\ SubSeq(s, 1, Len(prefix)) = prefix

\* str.splitlines(): a line ends at a line boundary ("\r\n" being one boundary)
\* or at the end of the text; no empty line follows a final boundary
RECURSIVE SplitLines(_)
SplitLines(s) ==
    LET breaks == {p \in 1..Len(s) : s[p] \in LineBreaks}
    IN  IF Len(s) = 0 THEN <<>>
        ELSE IF breaks = {} THEN <<s>>
        ELSE LET p == CHOOSE b \in breaks : \A c \in breaks : b <= c
                 q == IF s[p] = "\r" /\ p < Len(s) /\ s[p + 1] = "\n"
                      THEN p + 2 ELSE p + 1
             IN  <<SubSeq(s, 1, p - 1)>> \o SplitLines(SubSeq(s, q, Len(s)))

(***************************************************************************)
(* re.search(r'-\s*pending\s*$', s)                                        *)
(***************************************************************************)
\* the position after the longest run of whitespace that starts at p
RECURSIVE SkipSpace(_, _)
SkipSpace(s, p) ==
    IF p <= Len(s) /\ s[p] \in Whitespace THEN SkipSpace(s, p + 1) ELSE p

LiteralAt(s, p, w) ==
    p + Len(w) - 1 <= Len(s) /\ SubSeq(s, p, p + Len(w) - 1) = w

\* $ without re.MULTILINE: the end of the string, or just before a final "\n"
AtEnd(s, p) ==
    IF p = Len(s) + 1 THEN TRUE ELSE p = Len(s) /\ s[p] = "\n"

\* a match that starts at p; \s* may give back what it took
MatchPendingAt(s, p) ==
    /\ s[p] = "-"
    /\ \E q \in (p + 1)..SkipSpace(s, p + 1) :
          /\ LiteralAt(s, q, PENDING)
          /\ \E r \in (q + Len(PENDING))..SkipSpace(s, q + Len(PENDING)) : AtEnd(s, r)

\* the variant of the pattern without its leading hyphen: \s*pending\s*$
MatchPendingAtNoHyphen(s, p) ==
    \E q \in p..SkipSpace(s, p) :
       /\ LiteralAt(s, q, PENDING)
       /\ \E r \in (q + Len(PENDING))..SkipSpace(s, q + Len(PENDING)) : AtEnd(s, r)

ReSearchPendingNoHyphen(s) == \E p \in 1..Len(s) : MatchPendingAtNoHyphen(s, p)

ReSearchPending(s) == \E p \in 1..Len(s) : MatchPendingAt(s, p)

(***************************************************************************)
(* The two line tests of the scan.                                         *)
(***************************************************************************)
\* the comparison without .upper()
IsHeadingCaseSensitive(line) ==
    Strip(StripChars(Strip(line), {"="})) = ISSUE_REVIEW

\* line.strip().strip("=").strip().upper() == "ISSUE REVIEW"
IsHeading(line) ==
    Upper(Strip(StripChars(Strip(line), {"="}))) = ISSUE_REVIEW

\* line_stripped.startswith("- Issue") and re.search(...)
IsPendingLine(line) ==
    LET line_stripped == Strip(line)
    IN  StartsWith(line_stripped, ISSUE_PREFIX) /\ ReSearchPending(line_stripped)

\* remembers the first heading instead of the last
FirstHeadingIdx(idx, i, line) ==
    IF IsHeading(line) /\ idx = -1 THEN i ELSE idx

\* the body of the heading loop: the new value of issue_review_idx
NextHeadingIdx(idx, i, line) ==
    IF IsHeading(line) THEN i ELSE idx

\* a flag instead of a counter
PendingFlag(count, line) ==
    IF IsPendingLine(line) THEN 1 ELSE count

\* the body of the count loop: the new value of pending_count
NextPendingCount(count, line) ==
    IF IsPendingLine(line) THEN count + 1 ELSE count

\* lines[issue_review_idx:]
ReviewLines(ls, idx) == SubSeq(ls, idx + 1, Len(ls))

(***************************************************************************)
(* results.sort(key=lambda x: x[0], reverse=True)                          *)
(*                                                                         *)
(* list.sort is stable; with reverse=True the interpreter reverses the     *)
(* list, sorts it ascending and stably, and reverses it again.  A finding  *)
(* is the tuple <<mtime, filepath, reason>>.                               *)
(***************************************************************************)
Reverse(s) == [n \in 1..Len(s) |-> s[Len(s) + 1 - n]]

\* x put in front of the elements that have its key
InsertUnstable(sorted, x) ==
    LET c == Cardinality({m \in 1..Len(sorted) : sorted[m][1] < x[1]})
    IN  SubSeq(sorted, 1, c) \o <<x>> \o SubSeq(sorted, c + 1, Len(sorted))

\* x put into an ascending list, behind the elements that have its key
InsertStable(sorted, x) ==
    LET c == Cardinality({m \in 1..Len(sorted) : sorted[m][1] <= x[1]})
    IN  SubSeq(sorted, 1, c) \o <<x>> \o SubSeq(sorted, c + 1, Len(sorted))

RECURSIVE SortAscending(_)
SortAscending(s) ==
    IF Len(s) = 0 THEN <<>>
    ELSE InsertStable(SortAscending(SubSeq(s, 1, Len(s) - 1)), s[Len(s)])

\* the sort without reverse=True
SortOldestFirst(rs) == SortAscending(rs)

SortNewestFirst(rs) == Reverse(SortAscending(Reverse(rs)))

(***************************************************************************)
(* Paths and the text of the report.  A path is the sequence of its        *)
(* components; PathStr writes it with the separator.                       *)
(***************************************************************************)
\* os.path.join(BASE, d, "*.txt") with the pattern matched by name
JoinPath(base, d, name) == <<base, d, name>>

RECURSIVE PathStr(_)
PathStr(parts) ==
    IF Len(parts) = 1 THEN parts[1] ELSE parts[1] \o "/" \o PathStr(Tail(parts))

\* os.path.relpath(filepath, BASE), for a path below BASE
RelPath(path, base) == PathStr(Tail(path))

\* the format specification <35s: left-aligned, padded to the width, never cut
RECURSIVE PadRight(_, _)
PadRight(s, width) == IF Len(s) >= width THEN s ELSE PadRight(s \o " ", width)

TwoDigits(n) == IF n < 10 THEN "0" \o ToString(n) ELSE ToString(n)

\* datetime.fromtimestamp(mtime).strftime("%Y-%m-%d %H:%M"), for a time of
\* the first day of the epoch in a zone without offset
FormatTs(t) ==
    "1970-01-01 " \o TwoDigits((t \div 3600) % 24) \o ":" \o TwoDigits((t \div 60) % 60)

\* f"  {ts}  {rel:<35s}  {reason}"
ReportLine(finding) ==
    "  " \o FormatTs(finding[1]) \o "  "
         \o PadRight(RelPath(finding[2], BASE), RelWidth) \o "  " \o finding[3]

\* the count taken one too small
HeaderLineOffByOne(rs) ==
    "Found " \o ToString(Len(rs) - 1) \o " file(s) needing attention:"

\* f"Found {len(results)} file(s) needing attention:\n" up to its line break
HeaderLine(rs) ==
    "Found " \o ToString(Len(rs)) \o " file(s) needing attention:"

\* f"has {pending_count} PENDING issue(s)"
PendingReason(count) == "has " \o ToString(count) \o " PENDING issue(s)"

\* a file is reported whatever its count
ShouldReportAlways(count) == count >= 0

\* if pending_count > 0
ShouldReport(count) == count > 0

(***************************************************************************)
(* The inputs: the files the two directories may hold.                     *)
(***************************************************************************)
\* the *.txt names a directory may hold; glob returns them in any order
FileNames(d) == IF d = "reviews" THEN {"a.txt", "b.txt"} ELSE {"c.txt"}

\* the sequences that list each element of a subset of S once
Listings(S) ==
    UNION {{l \in [1..Cardinality(T) -> T] :
               \A m, n \in 1..Cardinality(T) : m # n => l[m] # l[n]} : T \in SUBSET S}

\* os.path.getmtime, in seconds
MTimes == {40 * t : t \in 0..MaxTick}

L_Heading == <<"=", "=", "=", " ", "I", "S", "S", "U", "E", " ", "R", "E", "V", "I", "E", "W", " ", "=", "=", "=">>
L_HeadingLower == <<"i", "s", "s", "u", "e", " ", "r", "e", "v", "i", "e", "w">>
L_HeadingRef == <<"s", "e", "e", " ", "I", "S", "S", "U", "E", " ", "R", "E", "V", "I", "E", "W", " ", "b", "e", "l", "o", "w">>
L_Pending1 == ISSUE_PREFIX \o <<" ", "1", ":", " ", "f", "o", "o", " ", "-", " ">> \o PENDING
L_Resolved2 == ISSUE_PREFIX \o <<" ", "2", ":", " ", "b", "a", "r", " ", "-", " ", "r", "e", "s", "o", "l", "v", "e", "d">>
L_Blocked == ISSUE_PREFIX \o <<" ", "3", ":", " ", "b", "l", "o", "c", "k", "e", "d", " ", "-", " ">> \o PENDING
L_BlockedReview == ISSUE_PREFIX \o <<" ", "3", ":", " ", "b", "l", "o", "c", "k", "e", "d", " ", "-", " ">> \o PENDING \o <<" ", "r", "e", "v", "i", "e", "w">>
L_NoHyphen == ISSUE_PREFIX \o <<" ", "3", ":", " ">> \o PENDING
L_Indented == <<" ", " ">> \o ISSUE_PREFIX \o <<" ", "4", ":", " ", "b", "a", "z", " ", "-">> \o PENDING \o <<" ", "\t">>
L_Notes == <<"n", "o", "t", "e", "s">>

\* the text whose lines are ls, each ended by a line feed
RECURSIVE Text(_)
Text(ls) == IF Len(ls) = 0 THEN <<>> ELSE Head(ls) \o <<"\n">> \o Text(Tail(ls))

\* the contents a file of the whole-run specification may have
Contents ==
    {<<>>,
     Text(<<L_Notes, L_Pending1>>),
     Text(<<L_Heading, L_Pending1, L_Resolved2>>),
     Text(<<L_Heading, L_Pending1, L_HeadingLower, L_NoHyphen>>),
     Text(<<L_HeadingRef, L_Heading, L_Blocked, L_Indented>>)}

\* lines that do or do not look like a pending issue
LinePool ==
    {lead \o start \o mid \o sep \o word \o trail :
        lead \in {<<>>, <<" ">>},
        start \in {ISSUE_PREFIX, <<"-", " ", "i", "s", "s", "u", "e">>, <<"I", "s", "s", "u", "e">>},
        mid \in {<<>>, <<" ", "3", ":", " ", "b", "l", "o", "c", "k", "e", "d">>},
        sep \in {<<>>, <<" ">>, <<" ", "-", " ">>, <<"-">>, <<" ", "-", "\t">>},
        word \in {PENDING, <<"P", "e", "n", "d", "i", "n", "g">>, PENDING \o <<" ", "r", "e", "v", "i", "e", "w">>, <<"r", "e", "s", "o", "l", "v", "e", "d">>},
        trail \in {<<>>, <<" ">>}}

\* lines that do or do not look like the heading
HeadingPool ==
    {lead \o eqL \o word \o eqR \o trail :
        lead \in {<<>>, <<" ">>},
        eqL \in {<<>>, <<"=">>, <<"=", "=", " ">>, <<"=", " ", "=">>},
        word \in {ISSUE_REVIEW, <<"i", "s", "s", "u", "e", " ", "r", "e", "v", "i", "e", "w">>, <<"I", "s", "s", "u", "e", " ", "R", "e", "v", "i", "e", "w">>, <<"I", "S", "S", "U", "E", " ", " ", "R", "E", "V", "I", "E", "W">>, <<"I", "S", "S", "U", "E", " ", "R", "E", "V", "I", "E", "W", ":">>, <<"I", "S", "S", "U", "E", "R", "E", "V", "I", "E", "W">>},
        eqR \in {<<>>, <<"=">>, <<" ", "=", "=">>, <<"=", "-">>},
        trail \in {<<>>, <<"\t">>}}

FileLines ==
    {L_Heading, L_HeadingLower, L_HeadingRef, L_Blocked, L_Indented, L_NoHyphen,
     L_BlockedReview, L_Notes}

SeqsUpTo(S, n) == UNION {[1..m -> S] : m \in 0..n}

\* the contents a file of the per-file specification may have
FilePool ==
    {Text(ls) : ls \in SeqsUpTo(FileLines, MaxLines)}
    \cup {Text(<<L_Heading, l>>) : l \in LinePool}
    \cup {Text(<<h, L_Blocked>>) : h \in HeadingPool}
    \cup {L_Heading \o <<"\r", "\n">> \o L_Blocked,
          L_Pending1 \o <<"\f">> \o L_HeadingLower \o <<"\n", "\n">> \o L_Indented}

(***************************************************************************)
(* The state of a run.                                                     *)
(***************************************************************************)
VARIABLES
    pc,               \* the statement the run is at
    dir_iter,         \* how many elements of DIRS the outer loop has taken
    d,                \* the directory of the outer loop
    listing,          \* the list glob.glob returned for d
    file_iter,        \* how many elements of listing the inner loop has taken
    filepath,         \* the file of the inner loop (of the report loop, later)
    mtime,            \* its modification time
    handles,          \* the files that are open
    exc,              \* the call whose OSError is propagating, or "none"
    content,          \* what f.read() returned
    lines,            \* content.splitlines()
    i,                \* how many lines the heading loop has visited
    issue_review_idx, \* the index of the last heading seen, or -1 for None
    review_lines,     \* lines[issue_review_idx:]
    j,                \* how many review lines the count loop has visited
    pending_count,
    results,          \* the findings: <<mtime, filepath, reason>>
    n,                \* how many findings the report loop has printed
    out,              \* the lines written to standard output
    scanned           \* history: the files read so far, as they were read

vars == <<pc, dir_iter, d, listing, file_iter, filepath, mtime, handles, exc,
          content, lines, i, issue_review_idx, review_lines, j, pending_count,
          results, n, out, scanned>>

fileVars == <<content, lines, i, issue_review_idx, review_lines, j, pending_count>>
loopVars == <<dir_iter, d, listing, file_iter>>

Init ==
    /\ pc = "dirs"
    /\ dir_iter = 0
    /\ d = ""
    /\ listing = <<>>
    /\ file_iter = 0
    /\ filepath = <<>>
    /\ mtime = 0
    /\ handles = {}
    /\ exc = "none"
    /\ content = <<>>
    /\ lines = <<>>
    /\ i = 0
    /\ issue_review_idx = -1
    /\ review_lines = <<>>
    /\ j = 0
    /\ pending_count = 0
    /\ results = <<>>
    /\ n = 0
    /\ out = <<>>
    /\ scanned = <<>>

(***************************************************************************)
(* The scan.                                                               *)
(***************************************************************************)
\* for d in DIRS: ... glob.glob(pattern)
ForDir ==
    /\ pc = "dirs"
    /\ dir_iter < Len(DIRS)
    /\ dir_iter' = dir_iter + 1
    /\ d' = DIRS[dir_iter + 1]
    /\ \E names \in Listings(FileNames(DIRS[dir_iter + 1])) :
          listing' = [m \in 1..Len(names) |-> JoinPath(BASE, DIRS[dir_iter + 1], names[m])]
    /\ file_iter' = 0
    /\ pc' = "files"
    /\ UNCHANGED <<filepath, mtime, handles, exc, fileVars, results, n, out, scanned>>

\* DIRS is exhausted
ScanDone ==
    /\ pc = "dirs"
    /\ dir_iter = Len(DIRS)
    /\ pc' = "sort"
    /\ UNCHANGED <<loopVars, filepath, mtime, handles, exc, fileVars, results, n, out,
                   scanned>>

\* for filepath in glob.glob(pattern)
ForFile ==
    /\ pc = "files"
    /\ file_iter < Len(listing)
    /\ filepath' = listing[file_iter + 1]
    /\ file_iter' = file_iter + 1
    /\ pc' = "getmtime"
    /\ UNCHANGED <<dir_iter, d, listing, mtime, handles, exc, fileVars, results, n, out,
                   scanned>>

\* the listing is exhausted
DirDone ==
    /\ pc = "files"
    /\ file_iter = Len(listing)
    /\ pc' = "dirs"
    /\ UNCHANGED <<loopVars, filepath, mtime, handles, exc, fileVars, results, n, out,
                   scanned>>

\* mtime = os.path.getmtime(filepath)
Getmtime ==
    /\ pc = "getmtime"
    /\ \E t \in MTimes : mtime' = t
    /\ pc' = "open"
    /\ UNCHANGED <<loopVars, filepath, handles, exc, fileVars, results, n, out, scanned>>

\* os.path.getmtime raises OSError
GetmtimeFail ==
    /\ pc = "getmtime"
    /\ exc' = "getmtime"
    /\ pc' = "unwind"
    /\ UNCHANGED <<loopVars, filepath, mtime, handles, fileVars, results, n, out, scanned>>

\* with open(filepath, ...) as f
Open ==
    /\ pc = "open"
    /\ handles' = handles \cup {filepath}
    /\ pc' = "read"
    /\ UNCHANGED <<loopVars, filepath, mtime, exc, fileVars, results, n, out, scanned>>

\* open raises OSError
OpenFail ==
    /\ pc = "open"
    /\ exc' = "open"
    /\ pc' = "unwind"
    /\ UNCHANGED <<loopVars, filepath, mtime, handles, fileVars, results, n, out, scanned>>

\* content = f.read()
Read ==
    /\ pc = "read"
    /\ \E c \in Contents :
          /\ content' = c
          /\ scanned' = Append(scanned, [filepath |-> filepath, mtime |-> mtime, content |-> c])
    /\ pc' = "exit"
    /\ UNCHANGED <<loopVars, filepath, mtime, handles, exc, lines, i, issue_review_idx,
                   review_lines, j, pending_count, results, n, out>>

\* f.read raises OSError
ReadFail ==
    /\ pc = "read"
    /\ exc' = "read"
    /\ pc' = "exit"
    /\ UNCHANGED <<loopVars, filepath, mtime, handles, fileVars, results, n, out, scanned>>

\* the file is left open when the body raised
LeakOnError(hs, f, e) == IF e = "none" THEN hs \ {f} ELSE hs

\* what the with statement leaves open: it closes f however the body ended
HandlesAfterExit(hs, f, e) == hs \ {f}

\* the end of the with statement
WithExit ==
    /\ pc = "exit"
    /\ handles' = HandlesAfterExit(handles, filepath, exc)
    /\ pc' = IF exc = "none" THEN "split" ELSE "unwind"
    /\ UNCHANGED <<loopVars, filepath, mtime, exc, fileVars, results, n, out, scanned>>

\* the error is swallowed and the scan goes on with the next file
SkipFile(e) == "files"

\* where a propagating OSError leaves the scan: no try statement encloses it
AfterRaise(e) == "failed"

\* the OSError leaves the loops and ends the run
Unwind ==
    /\ pc = "unwind"
    /\ pc' = AfterRaise(exc)
    /\ UNCHANGED <<loopVars, filepath, mtime, handles, exc, fileVars, results, n, out,
                   scanned>>

\* lines = content.splitlines(); issue_review_idx = None
Split ==
    /\ pc = "split"
    /\ lines' = SplitLines(content)
    /\ issue_review_idx' = -1
    /\ i' = 0
    /\ pc' = "heading"
    /\ UNCHANGED <<loopVars, filepath, mtime, handles, exc, content, review_lines, j,
                   pending_count, results, n, out, scanned>>

\* one turn of: for i, line in enumerate(lines)
HeadingStep ==
    /\ pc = "heading"
    /\ i < Len(lines)
    /\ issue_review_idx' = NextHeadingIdx(issue_review_idx, i, lines[i + 1])
    /\ i' = i + 1
    /\ UNCHANGED <<pc, loopVars, filepath, mtime, handles, exc, content, lines,
                   review_lines, j, pending_count, results, n, out, scanned>>

\* if issue_review_idx is None: results.append(...); continue
MissingSection ==
    /\ pc = "heading"
    /\ i = Len(lines)
    /\ issue_review_idx = -1
    /\ results' = Append(results, <<mtime, filepath, MISSING_REASON>>)
    /\ pc' = "files"
    /\ UNCHANGED <<loopVars, filepath, mtime, handles, exc, fileVars, n, out, scanned>>

\* pending_count = 0; review_lines = lines[issue_review_idx:]
StartCount ==
    /\ pc = "heading"
    /\ i = Len(lines)
    /\ issue_review_idx # -1
    /\ pending_count' = 0
    /\ review_lines' = ReviewLines(lines, issue_review_idx)
    /\ j' = 0
    /\ pc' = "count"
    /\ UNCHANGED <<loopVars, filepath, mtime, handles, exc, content, lines, i,
                   issue_review_idx, results, n, out, scanned>>

\* one turn of: for line in review_lines
CountStep ==
    /\ pc = "count"
    /\ j < Len(review_lines)
    /\ pending_count' = NextPendingCount(pending_count, review_lines[j + 1])
    /\ j' = j + 1
    /\ UNCHANGED <<pc, loopVars, filepath, mtime, handles, exc, content, lines, i,
                   issue_review_idx, review_lines, results, n, out, scanned>>

\* if pending_count > 0: results.append(...)
ReportPending ==
    /\ pc = "count"
    /\ j = Len(review_lines)
    /\ ShouldReport(pending_count)
    /\ results' = Append(results, <<mtime, filepath, PendingReason(pending_count)>>)
    /\ pc' = "files"
    /\ UNCHANGED <<loopVars, filepath, mtime, handles, exc, fileVars, n, out, scanned>>

\* pending_count is 0: nothing is appended
Clean ==
    /\ pc = "count"
    /\ j = Len(review_lines)
    /\ ~ShouldReport(pending_count)
    /\ pc' = "files"
    /\ UNCHANGED <<loopVars, filepath, mtime, handles, exc, fileVars, results, n, out,
                   scanned>>

(***************************************************************************)
(* The report.                                                             *)
(***************************************************************************)
\* results.sort(key=lambda x: x[0], reverse=True)
Sort ==
    /\ pc = "sort"
    /\ results' = SortNewestFirst(results)
    /\ pc' = "print"
    /\ UNCHANGED <<loopVars, filepath, mtime, handles, exc, fileVars, n, out, scanned>>

\* if not results: print("All review files are fully handled!")
PrintAllHandled ==
    /\ pc = "print"
    /\ Len(results) = 0
    /\ out' = Append(out, ALL_HANDLED)
    /\ pc' = "done"
    /\ UNCHANGED <<loopVars, filepath, mtime, handles, exc, fileVars, results, n, scanned>>

\* else: print(f"Found ... attention:\n"): the header and, the text ending in
\* a line break to which print adds its own, an empty line
PrintHeader ==
    /\ pc = "print"
    /\ Len(results) > 0
    /\ out' = out \o <<HeaderLine(results), "">>
    /\ n' = 0
    /\ pc' = "report"
    /\ UNCHANGED <<loopVars, filepath, mtime, handles, exc, fileVars, results, scanned>>

\* one turn of: for mtime, filepath, reason in results: ... print(...)
PrintLine ==
    /\ pc = "report"
    /\ n < Len(results)
    /\ mtime' = results[n + 1][1]
    /\ filepath' = results[n + 1][2]
    /\ out' = Append(out, ReportLine(results[n + 1]))
    /\ n' = n + 1
    /\ UNCHANGED <<pc, loopVars, handles, exc, fileVars, results, scanned>>

\* the report loop is exhausted: the run ends normally
ReportDone ==
    /\ pc = "report"
    /\ n = Len(results)
    /\ pc' = "done"
    /\ UNCHANGED <<loopVars, filepath, mtime, handles, exc, fileVars, results, n, out,
                   scanned>>

Next ==
    \/ ForDir \/ ScanDone \/ ForFile \/ DirDone
    \/ Getmtime \/ GetmtimeFail \/ Open \/ OpenFail \/ Read \/ ReadFail \/ WithExit
    \/ Unwind
    \/ Split \/ HeadingStep \/ MissingSection \/ StartCount \/ CountStep
    \/ ReportPending \/ Clean
    \/ Sort \/ PrintAllHandled \/ PrintHeader \/ PrintLine \/ ReportDone

\* a whole run, over files with the contents of Contents
Spec == Init /\ [][Next]_vars

(***************************************************************************)
(* The classification of one file, over the contents of FilePool: the run  *)
(* has read the first file of "reviews" and is about to split its text.    *)
(***************************************************************************)
InitFile ==
    /\ pc = "split"
    /\ dir_iter = 1
    /\ d = DIRS[1]
    /\ listing = <<JoinPath(BASE, DIRS[1], "a.txt")>>
    /\ file_iter = 1
    /\ filepath = JoinPath(BASE, DIRS[1], "a.txt")
    /\ mtime \in MTimes
    /\ handles = {}
    /\ exc = "none"
    /\ content \in FilePool
    /\ lines = <<>>
    /\ i = 0
    /\ issue_review_idx = -1
    /\ review_lines = <<>>
    /\ j = 0
    /\ pending_count = 0
    /\ results = <<>>
    /\ n = 0
    /\ out = <<>>
    /\ scanned = <<[filepath |-> filepath, mtime |-> mtime, content |-> content]>>

NextFile ==
    \/ Split \/ HeadingStep \/ MissingSection \/ StartCount \/ CountStep
    \/ ReportPending \/ Clean

SpecFile == InitFile /\ [][NextFile]_vars

(***************************************************************************)
(* What the claims speak of, stated on the text itself and not through the *)
(* operators of the scan.                                                  *)
(***************************************************************************)
AllSpace(s, a, b) == \A x \in a..b : s[x] \in Whitespace

AllEquals(s, a, b) == \A x \in a..b : s[x] = "="

\* s without the whitespace around it: from its first to its last character
\* that is not whitespace
Trimmed(s) ==
    LET first == {x \in 1..Len(s) : s[x] \notin Whitespace /\ AllSpace(s, 1, x - 1)}
        last == {x \in 1..Len(s) : s[x] \notin Whitespace /\ AllSpace(s, x + 1, Len(s))}
    IN  IF first = {} THEN <<>>
        ELSE SubSeq(s, CHOOSE x \in first : TRUE, CHOOSE x \in last : TRUE)

\* t ends with w and then nothing but whitespace; m is where w starts
EndsWithAt(t, w, m) ==
    /\ m + Len(w) - 1 <= Len(t)
    /\ \A x \in 1..Len(w) : t[m + x - 1] = w[x]
    /\ AllSpace(t, m + Len(w), Len(t))

\* "pending", possibly between whitespace, ends the line
EndsWithPending(t) == \E m \in 1..Len(t) : EndsWithAt(t, PENDING, m)

\* a hyphen, possibly whitespace, "pending" and possibly whitespace end the line
EndsWithHyphenPending(t) ==
    \E m \in 1..Len(t) :
        /\ EndsWithAt(t, PENDING, m)
        /\ \E h \in 1..(m - 1) : t[h] = "-" /\ AllSpace(t, h + 1, m - 1)

BeginsWithIssue(t) ==
    /\ Len(t) >= Len(ISSUE_PREFIX)
    /\ \A x \in 1..Len(ISSUE_PREFIX) : t[x] = ISSUE_PREFIX[x]

\* a pending issue line as the claim words it: no hyphen is asked for
PendingAsClaimed(line) ==
    LET t == Trimmed(line)
    IN  BeginsWithIssue(t) /\ EndsWithPending(t)

\* a pending issue line with the hyphen before "pending"
PendingWithHyphen(line) ==
    LET t == Trimmed(line)
    IN  BeginsWithIssue(t) /\ EndsWithHyphenPending(t)

LetterPairs == {<<LowerAlpha[x], UpperAlpha[x]>> : x \in DOMAIN LowerAlpha}

\* the same character, or the same letter in its two cases
SameLetter(c, e) == c = e \/ <<c, e>> \in LetterPairs \/ <<e, c>> \in LetterPairs

\* whitespace, then "=" signs, then whitespace, and nothing else, in s[a..b]
IsDecoration(s, a, b) ==
    \E e1 \in (a - 1)..b, e2 \in (a - 1)..b :
        /\ e1 <= e2
        /\ AllSpace(s, a, e1)
        /\ AllEquals(s, e1 + 1, e2)
        /\ AllSpace(s, e2 + 1, b)

\* "ISSUE REVIEW" in any case, between "=" signs and whitespace
HeadingLine(line) ==
    \E a \in 1..Len(line) :
        LET b == a + Len(ISSUE_REVIEW) - 1
        IN  /\ b <= Len(line)
            /\ \A x \in 1..Len(ISSUE_REVIEW) : SameLetter(line[a + x - 1], ISSUE_REVIEW[x])
            /\ IsDecoration(line, 1, a - 1)
            /\ IsDecoration(line, b + 1, Len(line))

HeadingsOf(ls) == {x \in 1..Len(ls) : HeadingLine(ls[x])}

\* the position of the last heading of ls, which has one
LastHeading(ls) ==
    LET hs == HeadingsOf(ls)
    IN  CHOOSE x \in hs : \A y \in hs : y <= x

\* the pending issue lines from the last heading to the end of ls
PendingFromLastHeading(ls) ==
    LET from == LastHeading(ls)
    IN  Cardinality({x \in from..Len(ls) : PendingWithHyphen(ls[x])})

\* whether the text has a heading line
TextHasHeading(c) == HeadingsOf(SplitLines(c)) # {}

\* the pending issue lines of the text from its last heading on, 0 without one
TextPending(c) == IF TextHasHeading(c) THEN PendingFromLastHeading(SplitLines(c)) ELSE 0

\* the two, tabulated for the contents of the whole-run specification
HeadingTable == [c \in Contents |-> TextHasHeading(c)]
PendingTable == [c \in Contents |-> TextPending(c)]

\* of a file that was read
HasHeading(e) ==
    IF e.content \in Contents THEN HeadingTable[e.content] ELSE TextHasHeading(e.content)

PendingOf(e) ==
    IF e.content \in Contents THEN PendingTable[e.content] ELSE TextPending(e.content)

\* the file that was read and is not yet classified, if any
InProgress == pc \in {"split", "heading", "count"} \/ (pc = "exit" /\ exc = "none")

\* the files whose processing is over
Finished == IF InProgress THEN SubSeq(scanned, 1, Len(scanned) - 1) ELSE scanned

FindingsOf(path) == {m \in 1..Len(results) : results[m][2] = path}

\* the position of a file in the order of discovery
Discovered(path) == CHOOSE x \in 1..Len(scanned) : scanned[x].filepath = path

NeedsAttention(e) == IF HasHeading(e) THEN PendingOf(e) > 0 ELSE TRUE

\* the report lines printed so far, the header and the empty line left out
Printed == SubSeq(out, 3, Len(out))

(***************************************************************************)
(* The claims.                                                             *)
(***************************************************************************)
\* C1, as stated: a turn of the count loop counts the line it visits if and
\* only if the trimmed line starts with "- Issue" and ends with "pending"
\* between optional whitespace, no hyphen before "pending" being needed.
C1_CountedIffEndsWithPending ==
    [][(pc = "count" /\ j < Len(review_lines)) =>
          ((pending_count' = pending_count + 1) <=> PendingAsClaimed(review_lines[j + 1]))]_vars

\* C1, amended: a turn of the count loop counts the line it visits if and
\* only if the trimmed line starts with "- Issue" and ends with a hyphen,
\* optional whitespace and "pending"; a line it does not count leaves the
\* count as it was.
C1_CountedIffEndsWithHyphenPending ==
    [][(pc = "count" /\ j < Len(review_lines)) =>
          /\ (pending_count' = pending_count + 1) <=> PendingWithHyphen(review_lines[j + 1])
          /\ pending_count' \in {pending_count, pending_count + 1}]_vars

\* C1: "- Issue 3: blocked - pending" was visited after the heading and counted
C1_Witness ==
    /\ pc = "count"
    /\ j = 2
    /\ review_lines = <<L_Heading, L_Blocked>>
    /\ pending_count = 1

\* C2: when the count loop ends, the lines it went through are those from the
\* last heading of the file to its end, and pending_count is the number of
\* pending issue lines among them: no line before the last heading counts.
C2_OnlyAfterLastHeading ==
    (pc = "count" /\ j = Len(review_lines)) =>
        /\ HeadingsOf(lines) # {}
        /\ review_lines = SubSeq(lines, LastHeading(lines), Len(lines))
        /\ pending_count = PendingFromLastHeading(lines)

\* C2: a file with two headings and a pending issue line between them, which
\* the finished count leaves out
C2_Witness ==
    /\ pc = "count"
    /\ j = Len(review_lines)
    /\ Cardinality(HeadingsOf(lines)) >= 2
    /\ \E x \in 1..Len(lines) :
          /\ PendingWithHyphen(lines[x])
          /\ x < LastHeading(lines)
          /\ \E y \in HeadingsOf(lines) : y < x
    /\ pending_count = 0

\* C3: a file that was processed and has no heading line has exactly one
\* finding, with the reason "MISSING ISSUE REVIEW section"; a file that has a
\* heading line has no finding with that reason.
C3_MissingIffNoHeading ==
    \A x \in 1..Len(Finished) :
        LET e == Finished[x]
        IN  IF HasHeading(e)
            THEN \A m \in FindingsOf(e.filepath) : results[m][3] # MISSING_REASON
            ELSE /\ Cardinality(FindingsOf(e.filepath)) = 1
                 /\ \A m \in FindingsOf(e.filepath) :
                       results[m] = <<e.mtime, e.filepath, MISSING_REASON>>

\* C3: a file without heading but with a pending issue line was reported as
\* missing the section
C3_Witness ==
    /\ pc = "files"
    /\ Len(lines) = 2
    /\ ~HeadingLine(lines[1])
    /\ PendingWithHyphen(lines[2])
    /\ results = <<<<mtime, filepath, MISSING_REASON>>>>

\* C4: a file that was processed, has a heading and N >= 1 pending issue lines
\* from its last heading on has exactly one finding, with the reason
\* "has N PENDING issue(s)"; no finding has the reason "has 0 PENDING issue(s)".
C4_PendingReasonCountsLines ==
    /\ \A x \in 1..Len(Finished) :
          LET e == Finished[x]
              N == PendingOf(e)
          IN  (HasHeading(e) /\ N >= 1) =>
                 /\ Cardinality(FindingsOf(e.filepath)) = 1
                 /\ \A m \in FindingsOf(e.filepath) :
                       results[m] = <<e.mtime, e.filepath,
                                      "has " \o ToString(N) \o " PENDING issue(s)">>
    /\ \A m \in 1..Len(results) : results[m][3] # "has 0 PENDING issue(s)"

\* C4: the run ended with a finding for a file with two pending issue lines
C4_Witness ==
    /\ pc = "done"
    /\ \E x \in 1..Len(scanned) :
          /\ HasHeading(scanned[x])
          /\ PendingOf(scanned[x]) = 2
          /\ \E m \in 1..Len(results) :
                results[m] = <<scanned[x].mtime, scanned[x].filepath, "has 2 PENDING issue(s)">>

\* C5: a file that was processed, has a heading and no pending issue line from
\* its last heading on has no finding; every report line is the line of a
\* finding, and the count of the header is the number of files that lack a
\* heading or have a pending issue line.
C5_CleanFileNotReported ==
    /\ \A x \in 1..Len(Finished) :
          (HasHeading(Finished[x]) /\ PendingOf(Finished[x]) = 0)
              => FindingsOf(Finished[x].filepath) = {}
    /\ \A y \in 1..Len(Printed) : \E m \in 1..Len(results) : Printed[y] = ReportLine(results[m])
    /\ Len(out) >= 2 =>
          out[1] = "Found "
                   \o ToString(Cardinality({x \in 1..Len(scanned) : NeedsAttention(scanned[x])}))
                   \o " file(s) needing attention:"

\* C5: the run ended with a report, and one of the files it read is clean
C5_Witness ==
    /\ pc = "done"
    /\ Len(out) = 3
    /\ \E x \in 1..Len(scanned) :
          /\ HasHeading(scanned[x])
          /\ PendingOf(scanned[x]) = 0
          /\ Len(SplitLines(scanned[x].content)) > 1

\* C6: the report lines are those of the findings, in their order, and of two
\* of them the one printed first belongs to a file whose modification time is
\* not smaller.
C6_ReportNewestFirst ==
    /\ Len(Printed) <= Len(results)
    /\ \A a \in 1..Len(Printed) : Printed[a] = ReportLine(results[a])
    /\ \A a, b \in 1..Len(Printed) :
          a < b => scanned[Discovered(results[a][2])].mtime
                      >= scanned[Discovered(results[b][2])].mtime

\* C6: three files of both directories were reported, and a file found later
\* is printed before one found earlier, being newer
C6_Witness ==
    /\ pc = "done"
    /\ Len(Printed) = 3
    /\ \E a, b \in 1..3 :
          /\ a < b
          /\ results[a][1] > results[b][1]
          /\ results[a][2][2] = DIRS[2]
          /\ results[b][2][2] = DIRS[1]

\* the output of a run that ended normally with the findings rs
ReportOf(rs) ==
    IF Len(rs) = 0 THEN <<ALL_HANDLED>>
    ELSE <<"Found " \o ToString(Len(rs)) \o " file(s) needing attention:", "">>
         \o [m \in 1..Len(rs) |-> ReportLine(rs[m])]

\* C7: a run that ended normally has printed either the all-handled message
\* alone, there being no finding, or the header with the number N of findings,
\* an empty line and N report lines, one per finding, the findings being of N
\* different files; until then the output is a part of that and the message
\* never stands beside a header.
C7_OneOfTwoShapes ==
    /\ pc = "done" => out = ReportOf(results)
    /\ pc = "report" => (Len(out) = n + 2 /\ out = SubSeq(ReportOf(results), 1, n + 2))
    /\ pc \notin {"report", "done"} => out = <<>>
    /\ \A a, b \in 1..Len(results) : a # b => results[a][2] # results[b][2]
    /\ (\E x \in 1..Len(out) : out[x] = ALL_HANDLED) => out = <<ALL_HANDLED>>

\* C7: a run ended normally with a header and two report lines
C7_Witness ==
    /\ pc = "done"
    /\ Len(results) = 2
    /\ out[1] = "Found 2 file(s) needing attention:"
    /\ Len(out) = 4

\* C8: an OSError of getmtime, open or read is never caught: once raised it
\* stays, the run goes to its failed end and stays there, and nothing is or
\* gets printed.
C8_ErrorFailsRunSilently ==
    [][/\ exc' # "none" => (pc' \in {"exit", "unwind", "failed"} /\ out' = <<>>)
       /\ exc # "none" => exc' = exc
       /\ pc = "unwind" => pc' = "failed"
       /\ pc # "failed"]_vars

\* C8: a read failed after findings had been collected; the run has failed
\* and nothing was printed
C8_Witness ==
    /\ pc = "failed"
    /\ exc = "read"
    /\ Len(results) >= 1
    /\ out = <<>>

\* C9: after the sort, of two findings with the same modification time the
\* one found first comes first; the files of "reviews" are found before those
\* of "ux-tests".
C9_TiesInDiscoveryOrder ==
    /\ pc \in {"print", "report", "done"} =>
          \A a, b \in 1..Len(results) :
              (a < b /\ results[a][1] = results[b][1])
                  => Discovered(results[a][2]) < Discovered(results[b][2])
    /\ \A x, y \in 1..Len(scanned) :
          (scanned[x].filepath[2] = DIRS[1] /\ scanned[y].filepath[2] = DIRS[2]) => x < y

\* C9: the sort moved a newer file to the front of two findings that share
\* their modification time, one of each directory
C9_Witness ==
    /\ pc = "print"
    /\ Len(results) = 3
    /\ results[1][1] > results[2][1]
    /\ results[2][1] = results[3][1]
    /\ results[2][2][2] = DIRS[1]
    /\ results[3][2][2] = DIRS[2]
    /\ Discovered(results[1][2]) = 2

\* C10: at most one file is open, and none is unless the run is between the
\* open and the end of the with statement of the file of the inner loop.
C10_OneHandleAtMost ==
    /\ Cardinality(handles) <= 1
    /\ handles \subseteq {filepath}
    /\ pc \notin {"read", "exit"} => handles = {}

\* C10: the read of the second file failed and its handle was released
C10_Witness ==
    /\ pc = "unwind"
    /\ exc = "read"
    /\ Len(scanned) = 1
    /\ handles = {}
====
